---- MODULE Spec2Model ----
(***************************************************************************)
(* Model of the Vanrakshak forest-fire API (src/app.py): the module-level  *)
(* model/scaler handles, the canonical feature list, and the /predict and  *)
(* / handlers run by concurrently dispatched requests.                     *)
(*                                                                         *)
(* Numbers are integers.  Probabilities are fixed-point integers counted   *)
(* in units of 10^-5; a probability rounded to 4 decimals is counted in    *)
(* units of 10^-4.                                                         *)
(***************************************************************************)
EXTENDS Integers, Sequences, FiniteSets, TLC

VARIABLES
    model,            \* module-level classifier handle (app.py:30), or Undefined
    scaler,           \* module-level scaler handle (app.py:31), or Undefined
    USEFUL_FEATURES,  \* module-level canonical feature list (app.py:38-46)
    pc,               \* per request: position in the handler
    route,            \* per request: "/" or "/predict"
    body,             \* per request: the HTTP body as received
    input_df,         \* per request: the one-row DataFrame (app.py:72)
    scaled,           \* per request: scaler.transform output (app.py:75)
    prediction,       \* per request: int(model.predict(scaled)[0]) (app.py:78)
    exc,              \* per request: str(e) of the exception caught at app.py:122
    calls,            \* per request: the artifact capabilities invoked, with arguments
    response          \* per request: the response sent

vars == <<model, scaler, USEFUL_FEATURES, pc, route, body, input_df,
          scaled, prediction, exc, calls, response>>

shared == <<model, scaler, USEFUL_FEATURES>>

-----------------------------------------------------------------------------
(* Bounds of the model.                                                    *)

\* Concurrently dispatched requests (request slots are reused).
Requests == {"r1", "r2"}

\* Number of distinct sensor readings clients send.
NumReadings == 2

\* Number of unrecognized keys a client may add to a record.
MaxExtraKeys == 1

-----------------------------------------------------------------------------
(* JSON values and DataFrame cells.                                        *)

Num(n) == [t |-> "num", v |-> n]
\* A non-empty, non-numeric JSON string such as "abc".
StrVal == [t |-> "str", v |-> 0]
NaN == [t |-> "nan", v |-> 0]

\* The canonical feature list as written at app.py:38-46.
FeatureList ==
    <<"temperature", "humidity", "smoke", "temp_max", "temp_min",
      "wind_speed", "wind_gust">>

Range(s) == {s[i] : i \in 1..Len(s)}

Reverse(s) == [i \in 1..Len(s) |-> s[Len(s) + 1 - i]]

RECURSIVE Sum(_)
Sum(s) == IF s = <<>> THEN 0 ELSE Head(s) + Sum(Tail(s))

\* Python str() of a natural number.
DigitStr == <<"0", "1", "2", "3", "4", "5", "6", "7", "8", "9">>

RECURSIVE str(_)
str(n) == IF n < 10 THEN DigitStr[n + 1] ELSE str(n \div 10) \o DigitStr[(n % 10) + 1]

-----------------------------------------------------------------------------
(* Request bodies clients send.                                            *)

\* The reading of the end-to-end example, in canonical order.
ExampleReading == <<35, 20, 80, 40, 25, 15, 20>>

\* Reading j: the example, every sensor j - 1 units higher.
Reading(j) == [i \in 1..Len(FeatureList) |-> ExampleReading[i] + (j - 1)]

ExtraKeys == {"extra" \o str(e) : e \in 1..MaxExtraKeys}

ExtraOrder == [e \in 1..MaxExtraKeys |-> "extra" \o str(e)]

IndexOf(seq, x) == CHOOSE i \in 1..Len(seq) : seq[i] = x

\* Key -> JSON value maps: reading j, all numeric; reading 1 with one
\* feature sent as a non-numeric string.  Unrecognized keys carry strings.
NumericValues(j) ==
    [k \in Range(FeatureList) \cup ExtraKeys |->
        IF k \in Range(FeatureList) THEN Num(Reading(j)[IndexOf(FeatureList, k)])
        ELSE StrVal]

NonNumericValues == [NumericValues(1) EXCEPT !["smoke"] = StrVal]

\* Orders in which a client may write the keys of an object.
KeyOrders == {FeatureList \o ExtraOrder, Reverse(FeatureList \o ExtraOrder)}

\* Key sets holding every canonical feature, with 0..MaxExtraKeys more keys.
FullKeySets ==
    {Range(FeatureList) \cup {ExtraOrder[i] : i \in 1..e} : e \in 0..MaxExtraKeys}

\* Key sets lacking canonical features.
PartialKeySets ==
    {Range(FeatureList) \ {"temperature"}, Range(FeatureList) \ {"humidity", "smoke"},
     {ExtraOrder[1]}, {}}

Item(k, v) == [k |-> k, v |-> v]

MkObject(order, present, vals) ==
    [kind |-> "object",
     items |-> [i \in 1..Len(SelectSeq(order, LAMBDA k : k \in present)) |->
                  Item(SelectSeq(order, LAMBDA k : k \in present)[i],
                       vals[SelectSeq(order, LAMBDA k : k \in present)[i]])]]

MkList(vs) == [kind |-> "list", items |-> [i \in 1..Len(vs) |-> Item("", vs[i])]]

MkScalar(v) == [kind |-> "scalar", items |-> <<Item("", v)>>]

ObjectBodies ==
    {MkObject(o, ks, NumericValues(j)) : o \in KeyOrders, ks \in FullKeySets, j \in 1..NumReadings}
    \cup {MkObject(FeatureList \o ExtraOrder, ks, NumericValues(1)) : ks \in PartialKeySets}
    \cup {MkObject(FeatureList, Range(FeatureList), NonNumericValues)}

ListBodies ==
    {MkList(<<>>), MkList(<<Num(1), Num(2)>>),
     MkList([i \in 1..Len(FeatureList) |-> Num(Reading(1)[i])])}

ScalarBodies == {MkScalar(Num(0)), MkScalar(Num(5)), MkScalar(StrVal)}

\* Requests are sent with Content-Type application/json.  "empty": a
\* zero-length body.  "null": the JSON text null.
BareBodies == {[kind |-> k, items |-> <<>>] : k \in {"empty", "null"}}

Bodies == ObjectBodies \cup ListBodies \cup ScalarBodies \cup BareBodies

-----------------------------------------------------------------------------
(* Framework and library calls made by the handler.                        *)

Undefined == [defined |-> FALSE]

Raise(msg) == [raised |-> msg, value |-> <<>>]

Return(v) == [raised |-> "", value |-> v]

\* request.get_json() (app.py:65) of a request declaring JSON content: a
\* body that is not JSON text (a zero-length one) makes it raise BadRequest;
\* otherwise it returns the parsed value, None for the text null.
get_json(b) ==
    IF b.kind = "empty"
    THEN Raise("400 Bad Request: Failed to decode JSON object")
    ELSE Return(b)

\* Python truth value of parsed JSON, as tested by "not data" (app.py:68).
Truthy(data) ==
    CASE data.kind = "null" -> FALSE
      [] data.kind \in {"object", "list"} -> Len(data.items) > 0
      [] data.kind = "scalar" ->
            IF data.items[1].v.t = "num" THEN data.items[1].v.v # 0 ELSE TRUE

HasKey(data, k) == \E i \in 1..Len(data.items) : data.items[i].k = k

Get(data, k) == data.items[CHOOSE i \in 1..Len(data.items) : data.items[i].k = k].v

\* The row read in the record's own key order instead of by column name.
DataFrame_by_position(data, columns) ==
    IF data.kind \in {"object", "list"}
    THEN Return([i \in 1..Len(columns) |->
                   IF i <= Len(data.items) THEN data.items[i].v ELSE NaN])
    ELSE Raise("Shape of passed values is (1, 1), indices imply (1, "
               \o str(Len(columns)) \o ")")

\* pd.DataFrame([data], columns=columns) (app.py:72): the single row.
\* A dict row is read by column name, absent columns become NaN; a list row
\* is read by position and must have as many entries as there are columns;
\* a scalar row has one entry.
DataFrame(data, columns) ==
    CASE data.kind = "object" ->
            Return([i \in 1..Len(columns) |->
                      IF HasKey(data, columns[i]) THEN Get(data, columns[i]) ELSE NaN])
      [] data.kind = "list" ->
            IF Len(data.items) = Len(columns)
            THEN Return([i \in 1..Len(columns) |-> data.items[i].v])
            ELSE Raise(str(Len(columns)) \o " columns passed, passed data had "
                       \o str(Len(data.items)) \o " columns")
      [] OTHER ->
            Raise("Shape of passed values is (1, 1), indices imply (1, "
                  \o str(Len(columns)) \o ")")

\* A cell holding no number.
IsMissing(cell) == cell.t = "nan"

\* scaler.transform(input_df) (app.py:75): per-feature affine transform of a
\* fitted scaler; missing cells stay missing.
transform(sc, row) ==
    IF \E i \in 1..Len(row) : row[i].t = "str"
    THEN Raise("could not convert string to float: 'abc'")
    ELSE IF Len(row) # sc.n_features_in
    THEN Raise("X has " \o str(Len(row)) \o " features, but StandardScaler is expecting "
               \o str(sc.n_features_in) \o " features as input.")
    ELSE Return([i \in 1..Len(row) |->
                   IF IsMissing(row[i]) THEN NaN ELSE Num(row[i].v - sc.mean)])

CellValues(X) == [i \in 1..Len(X) |-> IF IsMissing(X[i]) THEN 0 ELSE X[i].v]

\* Index of the class a fitted classifier decides for a scaled row.
ClassIndex(m, X) == (Sum(CellValues(X)) % Len(m.classes)) + 1

HasNaN(X) == \E i \in 1..Len(X) : IsMissing(X[i])

\* model.predict(scaled)[0] (app.py:78).
predict(m, X) ==
    IF HasNaN(X) /\ ~m.nan_ok
    THEN Raise("Input contains NaN.")
    ELSE Return(m.classes[ClassIndex(m, X)])

\* model.predict_proba(scaled)[0] (app.py:82): the fitted distribution with
\* its mode placed on the decided class.
predict_proba(m, X) ==
    IF HasNaN(X) /\ ~m.nan_ok
    THEN Raise("Input contains NaN.")
    ELSE Return([i \in 1..Len(m.classes) |->
                   m.dist[((i - ClassIndex(m, X)) % Len(m.classes)) + 1]])

\* hasattr(model, "predict_proba") (app.py:81).
hasattr_predict_proba(m) == m.has_proba

\* Truncation to 4 decimals instead of rounding.
round_down(p) == p \div 10

\* round(float(p), 4) (app.py:83) of a probability counted in units of 10^-5;
\* the result is counted in units of 10^-4.  An exact half goes to the even
\* neighbour; the fitted distributions below hold no exact half.
round(p) ==
    IF (p % 10 > 5) \/ (p % 10 = 5 /\ (p \div 10) % 2 = 1)
    THEN (p \div 10) + 1
    ELSE p \div 10

\* The dict comprehension at app.py:83, in insertion order.
prob_dict_of(proba) == [i \in 1..Len(proba) |-> Item(str(i - 1), round(proba[i]))]

NoProb == [isNone |-> TRUE, d |-> <<>>]

-----------------------------------------------------------------------------
(* Result interpretation (app.py:88-109).  Emoji are written by name and   *)
(* the em dash of the messages as "--".                                    *)

Descriptor(level, emoji, message) == [level |-> level, emoji |-> emoji, message |-> message]

\* The table with the entries of labels 1 and 2 exchanged.
risk_levels_swapped ==
    [l \in {0, 1, 2} |->
        CASE l = 0 -> Descriptor("Safe", "check_mark", "No fire risk detected.")
          [] l = 2 -> Descriptor("High Risk", "fire",
                                 "Forest fire likely -- immediate action advised!")
          [] l = 1 -> Descriptor("Borderline", "warning",
                                 "Uncertain condition -- monitor closely.")]

\* The dict literal at app.py:88-104.
risk_levels ==
    [l \in {0, 1, 2} |->
        CASE l = 0 -> Descriptor("Safe", "check_mark", "No fire risk detected.")
          [] l = 1 -> Descriptor("High Risk", "fire",
                                 "Forest fire likely -- immediate action advised!")
          [] l = 2 -> Descriptor("Borderline", "warning",
                                 "Uncertain condition -- monitor closely.")]

\* The lookup falling back to the first entry of the table.
risk_levels_get_first(label) ==
    IF label \in DOMAIN risk_levels THEN risk_levels[label] ELSE risk_levels[0]

\* risk_levels.get(prediction, {...}) (app.py:106-109).
risk_levels_get(label) ==
    IF label \in DOMAIN risk_levels
    THEN risk_levels[label]
    ELSE Descriptor("Unknown", "question_mark", "Invalid prediction output.")

-----------------------------------------------------------------------------
(* Responses.                                                              *)

NoResponse ==
    [status |-> 0, fields |-> {}, error |-> "", prediction |-> 0, level |-> "",
     emoji |-> "", message |-> "", probabilities |-> NoProb]

\* jsonify({"error": msg}), status (app.py:69, 124).
ErrorResponse(status, msg) ==
    [NoResponse EXCEPT !.status = status, !.fields = {"error"}, !.error = msg]

\* jsonify({"message": ...}) (app.py:56-58).
HomeResponse ==
    [NoResponse EXCEPT !.status = 200, !.fields = {"message"},
                       !.message = "Vanrakshak Forest Fire Detection API is Running Successfully!"]

\* jsonify({...}) (app.py:112-120).
ResultResponse(label, result, probs) ==
    [status |-> 200,
     fields |-> {"prediction", "level", "emoji", "message", "probabilities"},
     error |-> "", prediction |-> label, level |-> result.level,
     emoji |-> result.emoji, message |-> result.message, probabilities |-> probs]

-----------------------------------------------------------------------------
(* Artifacts a deployment may ship.                                        *)

\* Fitted classifiers: the labels of the decision regions and the
\* probability distribution (in units of 10^-5); one emits a label outside
\* the trained set {0, 1, 2}.
Trained ==
    {[classes |-> <<0, 1, 2>>, dist |-> <<70000, 20000, 10000>>],
     [classes |-> <<0, 2, 99, 1>>, dist |-> <<61728, 12346, 12346, 13580>>]}

ModelArtifacts ==
    {[defined |-> TRUE, classes |-> t.classes, dist |-> t.dist,
      has_proba |-> TRUE, nan_ok |-> nk] : t \in Trained, nk \in BOOLEAN}
    \cup
    {[defined |-> TRUE, classes |-> t.classes, dist |-> <<>>,
      has_proba |-> FALSE, nan_ok |-> nk] : t \in Trained, nk \in BOOLEAN}

\* Fitted scalers: one fitted on the 7 canonical features, one fitted on a
\* different feature count.
ScalerArtifacts ==
    {[defined |-> TRUE, n_features_in |-> n, mean |-> 20]
        : n \in {Len(FeatureList), Len(FeatureList) - 1}}

\* Module-level loading (app.py:29-34): the model is loaded first, then the
\* scaler; the first failure leaves the remaining names unbound.
LoadOutcomes ==
    {<<m, sc>> : m \in ModelArtifacts, sc \in ScalerArtifacts}
    \cup {<<m, Undefined>> : m \in ModelArtifacts}
    \cup {<<Undefined, Undefined>>}

-----------------------------------------------------------------------------
(* The state machine.                                                      *)

NoPrediction == [set |-> FALSE, v |-> 0]

\* The body slot of a worker holding no /predict request.
NoBody == [kind |-> "none", items |-> <<>>]

Init ==
    /\ \E lo \in LoadOutcomes : model = lo[1] /\ scaler = lo[2]
    /\ USEFUL_FEATURES = FeatureList
    /\ pc = [r \in Requests |-> "idle"]
    /\ route = [r \in Requests |-> "/"]
    /\ body = [r \in Requests |-> NoBody]
    /\ input_df = [r \in Requests |-> <<>>]
    /\ scaled = [r \in Requests |-> <<>>]
    /\ prediction = [r \in Requests |-> NoPrediction]
    /\ exc = [r \in Requests |-> ""]
    /\ calls = [r \in Requests |-> <<>>]
    /\ response = [r \in Requests |-> NoResponse]

\* The runtime dispatches a request to a free worker.
Arrive(r) ==
    /\ pc[r] = "idle"
    /\ \/ route' = [route EXCEPT ![r] = "/"] /\ UNCHANGED body
       \/ \E b \in Bodies :
             /\ route' = [route EXCEPT ![r] = "/predict"]
             /\ body' = [body EXCEPT ![r] = b]
    /\ pc' = [pc EXCEPT ![r] = "handle"]
    /\ UNCHANGED <<shared, input_df, scaled, prediction, exc, calls, response>>

\* The response has been sent: the handler's locals are dropped and the
\* worker is free again.
Release(r) ==
    /\ pc[r] = "done"
    /\ pc' = [pc EXCEPT ![r] = "idle"]
    /\ route' = [route EXCEPT ![r] = "/"]
    /\ body' = [body EXCEPT ![r] = NoBody]
    /\ input_df' = [input_df EXCEPT ![r] = <<>>]
    /\ scaled' = [scaled EXCEPT ![r] = <<>>]
    /\ prediction' = [prediction EXCEPT ![r] = NoPrediction]
    /\ exc' = [exc EXCEPT ![r] = ""]
    /\ calls' = [calls EXCEPT ![r] = <<>>]
    /\ response' = [response EXCEPT ![r] = NoResponse]
    /\ UNCHANGED shared

\* home() (app.py:53-58).
Home(r) ==
    /\ pc[r] = "handle"
    /\ route[r] = "/"
    /\ response' = [response EXCEPT ![r] = HomeResponse]
    /\ pc' = [pc EXCEPT ![r] = "done"]
    /\ UNCHANGED <<shared, route, body, input_df, scaled, prediction, exc, calls>>

\* The except clause answering 400 instead of 500.
Fail_as_400(r, msg) ==
    /\ exc' = [exc EXCEPT ![r] = msg]
    /\ response' = [response EXCEPT ![r] = ErrorResponse(400, msg)]
    /\ pc' = [pc EXCEPT ![r] = "done"]

\* The except clause of predict() (app.py:122-124).
Fail(r, msg) ==
    /\ exc' = [exc EXCEPT ![r] = msg]
    /\ response' = [response EXCEPT ![r] = ErrorResponse(500, msg)]
    /\ pc' = [pc EXCEPT ![r] = "done"]

\* predict(), app.py:65-72: read the body, reject falsy input, build the row.
Parse(r) ==
    /\ pc[r] = "handle"
    /\ route[r] = "/predict"
    /\ LET got == get_json(body[r])
           df == DataFrame(got.value, USEFUL_FEATURES)
       IN  IF got.raised # ""
           THEN Fail(r, got.raised) /\ UNCHANGED input_df
           ELSE IF ~Truthy(got.value)
           THEN /\ response' = [response EXCEPT
                                   ![r] = ErrorResponse(400, "No input data provided")]
                /\ pc' = [pc EXCEPT ![r] = "done"]
                /\ UNCHANGED <<exc, input_df>>
           ELSE IF df.raised # ""
           THEN Fail(r, df.raised) /\ UNCHANGED input_df
           ELSE /\ input_df' = [input_df EXCEPT ![r] = df.value]
                /\ pc' = [pc EXCEPT ![r] = "transform"]
                /\ UNCHANGED <<exc, response>>
    /\ UNCHANGED <<shared, route, body, scaled, prediction, calls>>

Call(name, arg) == [name |-> name, arg |-> arg]

\* The scaling step calling fit_transform: the shared scaler is refitted on
\* the request's row before it is applied.
Transform_fit(r) ==
    /\ pc[r] = "transform"
    /\ IF ~scaler.defined
       THEN Fail(r, "name 'scaler' is not defined") /\ UNCHANGED <<scaled, calls, scaler>>
       ELSE /\ calls' = [calls EXCEPT ![r] = Append(@, Call("transform", input_df[r]))]
            /\ LET out == transform(scaler, input_df[r])
               IN  IF out.raised # ""
                   THEN Fail(r, out.raised) /\ UNCHANGED <<scaled, scaler>>
                   ELSE /\ scaler' = [scaler EXCEPT !.mean = CellValues(input_df[r])[1]]
                        /\ scaled' = [scaled EXCEPT ![r] =
                                          transform(scaler', input_df[r]).value]
                        /\ pc' = [pc EXCEPT ![r] = "predict"]
                        /\ UNCHANGED <<exc, response>>
    /\ UNCHANGED <<model, USEFUL_FEATURES, route, body, input_df, prediction>>

\* predict(), app.py:75: scale the row with the module-level scaler.
Transform(r) ==
    /\ pc[r] = "transform"
    /\ IF ~scaler.defined
       THEN Fail(r, "name 'scaler' is not defined") /\ UNCHANGED <<scaled, calls>>
       ELSE /\ calls' = [calls EXCEPT ![r] = Append(@, Call("transform", input_df[r]))]
            /\ LET out == transform(scaler, input_df[r])
               IN  IF out.raised # ""
                   THEN Fail(r, out.raised) /\ UNCHANGED scaled
                   ELSE /\ scaled' = [scaled EXCEPT ![r] = out.value]
                        /\ pc' = [pc EXCEPT ![r] = "predict"]
                        /\ UNCHANGED <<exc, response>>
    /\ UNCHANGED <<shared, route, body, input_df, prediction>>

\* predict(), app.py:78: classify the scaled row with the module-level model.
Predict(r) ==
    /\ pc[r] = "predict"
    /\ IF ~model.defined
       THEN Fail(r, "name 'model' is not defined") /\ UNCHANGED <<prediction, calls>>
       ELSE /\ calls' = [calls EXCEPT ![r] = Append(@, Call("predict", scaled[r]))]
            /\ LET out == predict(model, scaled[r])
               IN  IF out.raised # ""
                   THEN Fail(r, out.raised) /\ UNCHANGED prediction
                   ELSE /\ prediction' = [prediction EXCEPT
                                             ![r] = [set |-> TRUE, v |-> out.value]]
                        /\ pc' = [pc EXCEPT ![r] = "respond"]
                        /\ UNCHANGED <<exc, response>>
    /\ UNCHANGED <<shared, route, body, input_df, scaled>>

\* predict(), app.py:81-120: probabilities, interpretation, response.
Respond(r) ==
    /\ pc[r] = "respond"
    /\ IF hasattr_predict_proba(model)
       THEN /\ calls' = [calls EXCEPT ![r] = Append(@, Call("predict_proba", scaled[r]))]
            /\ LET out == predict_proba(model, scaled[r])
               IN  IF out.raised # ""
                   THEN Fail(r, out.raised)
                   ELSE /\ response' = [response EXCEPT ![r] =
                               ResultResponse(prediction[r].v,
                                              risk_levels_get(prediction[r].v),
                                              [isNone |-> FALSE,
                                               d |-> prob_dict_of(out.value)])]
                        /\ pc' = [pc EXCEPT ![r] = "done"]
                        /\ UNCHANGED exc
       ELSE /\ response' = [response EXCEPT ![r] =
                   ResultResponse(prediction[r].v, risk_levels_get(prediction[r].v), NoProb)]
            /\ pc' = [pc EXCEPT ![r] = "done"]
            /\ UNCHANGED <<exc, calls>>
    /\ UNCHANGED <<shared, route, body, input_df, scaled, prediction>>

Next ==
    \E r \in Requests :
        \/ Arrive(r)
        \/ Home(r)
        \/ Parse(r)
        \/ Transform(r)
        \/ Predict(r)
        \/ Respond(r)
        \/ Release(r)

Spec == Init /\ [][Next]_vars

-----------------------------------------------------------------------------
(* Vocabulary of the properties.                                           *)

\* The canonical order the properties refer to.
Canonical ==
    <<"temperature", "humidity", "smoke", "temp_max", "temp_min",
      "wind_speed", "wind_gust">>

Finished(r) == pc[r] = "done" /\ route[r] = "/predict"

Called(r, name) == \E i \in 1..Len(calls[r]) : calls[r][i].name = name

ArgOf(r, name) == calls[r][CHOOSE i \in 1..Len(calls[r]) : calls[r][i].name = name].arg

Absent(b) == {k \in Range(Canonical) : \A i \in 1..Len(b.items) : b.items[i].k # k}

\* Every canonical feature the object does give is numeric.
PresentNumeric(b) ==
    \A i \in 1..Len(b.items) : b.items[i].k \in Range(Canonical) => b.items[i].v.t = "num"

\* A JSON object with every canonical feature present and numeric.
ValidRecord(b) ==
    /\ b.kind = "object"
    /\ Absent(b) = {}
    /\ PresentNumeric(b)

LoadFailed == ~model.defined \/ ~scaler.defined

\* Both artifacts loaded, the scaler fitted on the canonical feature count.
Healthy == ~LoadFailed /\ scaler.n_features_in = Len(Canonical)

\* C1: with both artifacts loaded and sound, a non-empty object lacking a canonical
\* feature is answered 400, and neither artifact is called with a vector
\* holding a stand-in for the missing feature.
C1_MissingFeatureRejected ==
    \A r \in Requests :
        (Finished(r) /\ Healthy /\ body[r].kind = "object"
                     /\ Len(body[r].items) > 0 /\ Absent(body[r]) # {}
                     /\ PresentNumeric(body[r]))
        => /\ response[r].status = 400
           /\ \A i \in 1..Len(calls[r]) :
                 \A j \in 1..Len(calls[r][i].arg) : calls[r][i].arg[j].t = "num"

\* C2: after a failed load every /predict call is answered 500 without any
\* pipeline step (no validation outcome, no vectorization, no artifact call).
C2_LoadFailureFailsFast ==
    \A r \in Requests :
        (Finished(r) /\ LoadFailed)
        => /\ response[r].status = 500
           /\ input_df[r] = <<>>
           /\ calls[r] = <<>>

\* The lookup table as the specification prints it.
SpecTable(l) ==
    CASE l = 0 -> Descriptor("Safe", "check_mark", "No fire risk detected.")
      [] l = 1 -> Descriptor("High Risk", "fire", "Forest fire likely -- take action!")
      [] l = 2 -> Descriptor("Borderline", "warning", "Uncertain -- monitor closely.")

\* The lookup table with the messages of the amended claim.
AmendedTable(l) ==
    CASE l = 0 -> Descriptor("Safe", "check_mark", "No fire risk detected.")
      [] l = 1 -> Descriptor("High Risk", "fire",
                             "Forest fire likely -- immediate action advised!")
      [] l = 2 -> Descriptor("Borderline", "warning",
                             "Uncertain condition -- monitor closely.")

DescriptorOf(resp) == Descriptor(resp.level, resp.emoji, resp.message)

Success(r) == Finished(r) /\ response[r].status = 200

\* C3 as claimed: a success response for label 0, 1 or 2 carries the
\* descriptor of the specification's table and the label itself.
C3_SpecDescriptor ==
    \A r \in Requests :
        (Success(r) /\ prediction[r].v \in {0, 1, 2})
        => /\ response[r].prediction = prediction[r].v
           /\ DescriptorOf(response[r]) = SpecTable(prediction[r].v)

\* C3 amended: a success response for label 0, 1 or 2 carries the label and
\* the descriptor Safe / High Risk / Borderline with the messages
\* "No fire risk detected.", "Forest fire likely -- immediate action advised!",
\* "Uncertain condition -- monitor closely."; the descriptor depends on the
\* label only.
C3_CodeDescriptor ==
    /\ \A r \in Requests :
          (Success(r) /\ prediction[r].v \in {0, 1, 2})
          => /\ response[r].prediction = prediction[r].v
             /\ DescriptorOf(response[r]) = AmendedTable(prediction[r].v)
    /\ \A r1, r2 \in Requests :
          (Success(r1) /\ Success(r2) /\ response[r1].prediction = response[r2].prediction)
          => DescriptorOf(response[r1]) = DescriptorOf(response[r2])

\* Two finished successes with the same recognized label, reached from
\* different records and with different probabilities.
C3_Witness ==
    \E r1, r2 \in Requests :
        /\ Success(r1) /\ Success(r2)
        /\ response[r1].prediction = 1 /\ response[r2].prediction = 1
        /\ body[r1] # body[r2]
        /\ ~response[r1].probabilities.isNone

-----------------------------------------------------------------------------

\* The value a record gives a canonical feature, found by key.
ValueAt(b, k) == b.items[CHOOSE j \in 1..Len(b.items) : b.items[j].k = k].v

SameReading(b1, b2) == \A k \in Range(Canonical) : ValueAt(b1, k) = ValueAt(b2, k)

\* C4: for a valid record the vector handed to the Scaler has length 7 and
\* its i-th entry is the record's value for the i-th canonical name; records
\* agreeing on the 7 canonical values, whatever their key order and extra
\* keys, yield the same vector and the same response.
C4_CanonicalVector ==
    /\ \A r \in Requests :
          (route[r] = "/predict" /\ ValidRecord(body[r]) /\ Called(r, "transform"))
          => /\ Len(ArgOf(r, "transform")) = 7
             /\ \A i \in 1..7 : \A j \in 1..Len(body[r].items) :
                   body[r].items[j].k = Canonical[i]
                   => ArgOf(r, "transform")[i] = body[r].items[j].v
    /\ \A r1, r2 \in Requests :
          (/\ route[r1] = "/predict" /\ route[r2] = "/predict"
           /\ ValidRecord(body[r1]) /\ ValidRecord(body[r2])
           /\ SameReading(body[r1], body[r2]))
          => /\ (Called(r1, "transform") /\ Called(r2, "transform"))
                => ArgOf(r1, "transform") = ArgOf(r2, "transform")
             /\ (Finished(r1) /\ Finished(r2)) => response[r1] = response[r2]

\* Two successes for the same reading written in different key orders, one
\* of them with an unrecognized key.
C4_Witness ==
    \E r1, r2 \in Requests :
        /\ Success(r1) /\ Success(r2)
        /\ ValidRecord(body[r1]) /\ ValidRecord(body[r2])
        /\ SameReading(body[r1], body[r2])
        /\ body[r1].items[1].k = "temperature"
        /\ body[r2].items[1].k # "temperature"
        /\ Len(body[r2].items) > Len(body[r1].items)

Abs(n) == IF n < 0 THEN -n ELSE n

\* C5: in a success response probabilities is null exactly when the
\* Classifier has no probability capability; otherwise it maps "0".."n-1" to
\* the classifier's probabilities for the scaled vector given to predict,
\* each within half a unit of the 4th decimal.
C5_Probabilities ==
    \A r \in Requests :
        Success(r)
        => /\ response[r].probabilities.isNone <=> ~model.has_proba
           /\ model.has_proba
              => /\ Called(r, "predict_proba")
                 /\ ArgOf(r, "predict_proba") = ArgOf(r, "predict")
                 /\ LET p == predict_proba(model, ArgOf(r, "predict")).value
                        d == response[r].probabilities.d
                    IN  /\ Len(d) = Len(p)
                        /\ \A i \in 1..Len(p) :
                              /\ d[i].k = DigitStr[i]
                              /\ Abs(10 * d[i].v - p[i]) <= 5
           /\ ~model.has_proba
              => /\ ~Called(r, "predict_proba")
                 /\ response[r].probabilities = NoProb

\* A success whose probabilities are not multiples of 10^-4, and one of a
\* classifier without the capability, are both reachable.
C5_Witness ==
    \E r \in Requests :
        /\ Success(r)
        /\ model.has_proba
        /\ \E i \in 1..Len(model.dist) : model.dist[i] % 10 # 0
        /\ Len(response[r].probabilities.d) = 4

\* C6: a label outside {0,1,2} yields a 200 response carrying that label,
\* the fallback descriptor and the probabilities as built.
C6_UnknownLabel ==
    \A r \in Requests :
        (pc[r] = "done" /\ prediction[r].set /\ prediction[r].v \notin {0, 1, 2})
        => /\ response[r].status = 200
           /\ response[r].prediction = prediction[r].v
           /\ DescriptorOf(response[r])
                 = Descriptor("Unknown", "question_mark", "Invalid prediction output.")
           /\ response[r].probabilities.isNone <=> ~model.has_proba
           /\ model.has_proba => Len(response[r].probabilities.d) = Len(model.classes)

C6_Witness ==
    \E r \in Requests :
        /\ pc[r] = "done" /\ prediction[r].set /\ prediction[r].v = 99
        /\ ~response[r].probabilities.isNone

\* An empty or missing body: a zero-length body, or {}.
EmptyBody(b) == b.kind = "empty" \/ (b.kind = "object" /\ b.items = <<>>)

\* C7: an empty object, or any empty or missing body, is answered 400 with a
\* non-empty error string, without invoking the Scaler or the Classifier.
C7_EmptyBodyRejected ==
    \A r \in Requests :
        (Finished(r) /\ Healthy /\ EmptyBody(body[r]))
        => /\ response[r].status = 400
           /\ response[r].error # ""
           /\ calls[r] = <<>>

\* A non-empty body that is not a JSON object, or an object giving a
\* canonical feature a non-numeric value.
Malformed(b) ==
    \/ b.kind \in {"list", "scalar"}
    \/ /\ b.kind = "object"
       /\ \E i \in 1..Len(b.items) :
             b.items[i].k \in Range(Canonical) /\ b.items[i].v.t = "str"

\* C8: malformed client input is answered 400, never 500 and never 200.
C8_MalformedRejected ==
    \A r \in Requests :
        (Finished(r) /\ Healthy /\ Malformed(body[r])) => response[r].status = 400

-----------------------------------------------------------------------------

\* C9: no request writes the module-level model and scaler handles or the
\* canonical feature list, and whatever ran before or alongside, requests
\* with the same route and body get the same response.
C9_NoSharedWrites ==
    /\ [][model' = model /\ scaler' = scaler /\ USEFUL_FEATURES' = USEFUL_FEATURES]_vars
    /\ [](\A r1, r2 \in Requests :
              (pc[r1] = "done" /\ pc[r2] = "done"
               /\ route[r1] = route[r2] /\ body[r1] = body[r2])
              => response[r1] = response[r2])
    /\ [](USEFUL_FEATURES = Canonical)

\* Two workers hold the responses of the same valid record, both successes.
C9_Witness ==
    \E r1, r2 \in Requests :
        /\ r1 # r2
        /\ Success(r1) /\ Success(r2)
        /\ body[r1] = body[r2]
        /\ ValidRecord(body[r1])

InFlight == {"handle", "transform", "predict", "respond"}

Rank(p) ==
    CASE p = "idle" -> 0
      [] p = "handle" -> 1
      [] p = "transform" -> 2
      [] p = "predict" -> 3
      [] p = "respond" -> 4
      [] p = "done" -> 5

Step(r) == Home(r) \/ Parse(r) \/ Transform(r) \/ Predict(r) \/ Respond(r)

\* What a request has sent is 200, 400 or 500, sent exactly when it is done;
\* a caught exception is answered 500 with its description; a 200 of /predict
\* has exactly the five result fields; no capability is invoked twice.
C10_ResponseShape ==
    \A r \in Requests :
        /\ (pc[r] = "done") <=> (response[r].status # 0)
        /\ pc[r] = "done" => response[r].status \in {200, 400, 500}
        /\ (pc[r] = "done" /\ exc[r] # "")
           => response[r] = ErrorResponse(500, exc[r])
        /\ Success(r)
           => response[r].fields
                 = {"prediction", "level", "emoji", "message", "probabilities"}
        /\ \A i, j \in 1..Len(calls[r]) : calls[r][i].name = calls[r][j].name => i = j

\* The failures of each stage, taken from the stage's inputs.
C10_FailuresSurface ==
    \A r \in Requests :
        Finished(r)
        => /\ body[r].kind = "empty"
              => response[r] = ErrorResponse(500, "400 Bad Request: Failed to decode JSON object")
           /\ (Called(r, "transform") /\ scaler.n_features_in # Len(ArgOf(r, "transform"))
               /\ PresentNumeric(body[r]))
              => response[r] = ErrorResponse(500,
                    "X has 7 features, but StandardScaler is expecting 6 features as input.")
           /\ (Called(r, "predict") /\ ~model.nan_ok
               /\ \E i \in 1..Len(ArgOf(r, "predict")) : ArgOf(r, "predict")[i].t = "nan")
              => response[r] = ErrorResponse(500, "Input contains NaN.")
           /\ response[r].status = 400 => exc[r] = ""
           /\ response[r].status = 200 => exc[r] = ""

\* C10: every /predict request ends in exactly one response with status 200,
\* 400 or 500 and no step is retried: a request in flight can always take its
\* next step, every step moves it forward, the response once sent stays as
\* sent; every exception is answered 500 with its description, never 200 or
\* 400; a 200 body has exactly prediction, level, emoji, message,
\* probabilities.
C10_OneResponse ==
    /\ [](C10_ResponseShape /\ C10_FailuresSurface)
    /\ [](\A r \in Requests : pc[r] \in InFlight => ENABLED Step(r))
    /\ [][\A r \in Requests :
            /\ pc'[r] # pc[r]
               => \/ Rank(pc'[r]) > Rank(pc[r])
                  \/ pc[r] = "done" /\ pc'[r] = "idle"
            /\ (pc[r] = "done" /\ pc'[r] = "done") => response'[r] = response[r]
            /\ pc[r] \in InFlight => pc'[r] # "idle"]_vars

\* A valid record met a scaler fitted on another feature count and was
\* answered 500.
C10_Witness ==
    \E r \in Requests :
        /\ Finished(r)
        /\ ValidRecord(body[r])
        /\ Called(r, "transform")
        /\ response[r].status = 500
        /\ scaler.n_features_in = 6

====
